---- MODULE Spec2Model ----
(***************************************************************************)
(* Model of go-daemon's rebirth protocol (daemon_posix.go): the parent     *)
(* path of Reborn (prepareEnv, openFiles, files, StartProcess, handoff,    *)
(* closeFiles) run by concurrent caller processes, and the child path      *)
(* (decode, descriptor rewire, pid write, umask, chroot, credentials) run  *)
(* by every spawned process image; the liveness oracle of util_posix.go    *)
(* (GetExecPath, IsProcessRunning) on its own; and the commands Start,     *)
(* Status, Stop and Kill run one after another on one pid file.            *)
(*                                                                         *)
(* A Go string is a sequence of chunks: a chunk is either a piece of valid *)
(* UTF-8 text or the single chunk BAD, a byte that is not valid UTF-8.     *)
(* A nil pointer or an absent value is the empty sequence, a present one   *)
(* is a one-element sequence.                                              *)
(***************************************************************************)
EXTENDS Integers, Sequences, FiniteSets, TLC

\* ------------------------------------------------------------- bounds
\* Reborn calls begun on the parent path, over all callers
MaxCalls == 3
\* invocations of the child path inside one spawned process image
MaxChildCalls == 2
\* characters in the last component of an executable path
MaxNameLen == 2
\* lifecycle commands run one after another
MaxCommands == 4

\* ---------------------------------------------------------- constants
MARK_NAME == <<"_GO_DAEMON">>
MARK_VALUE == <<"1">>
FILE_PERM == 416

\* a byte that is not valid UTF-8, and U+FFFD, which encoding/json puts in its place
BAD == "\\xff"
REPLACEMENT == "\\ufffd"

\* the nil error
Nil == "nil"
\* os.ErrInvalid
ErrInvalid == "invalid argument"
\* the error of a non-blocking flock(2) on a file locked through another description
ErrWouldBlock == "resource temporarily unavailable"

\* --------------------------------------------------------- environment
\* fmt.Sprintf("%s=%s", name, value)
Sprintf(name, value) == name \o <<"=">> \o value

\* index of the first "=" chunk of an environment entry, 0 when it has none
RECURSIVE EqAt(_, _)
EqAt(e, i) ==
  IF i > Len(e) THEN 0 ELSE IF e[i] = "=" THEN i ELSE EqAt(e, i + 1)

EnvKey(e) == IF EqAt(e, 1) = 0 THEN e ELSE SubSeq(e, 1, EqAt(e, 1) - 1)
EnvVal(e) == IF EqAt(e, 1) = 0 THEN <<>> ELSE SubSeq(e, EqAt(e, 1) + 1, Len(e))

\* os.Getenv: the first entry of the environment that carries the key decides
RECURSIVE GetenvFrom(_, _, _)
GetenvFrom(env, key, i) ==
  IF i > Len(env) THEN <<>>
  ELSE IF EqAt(env[i], 1) # 0 /\ EnvKey(env[i]) = key THEN EnvVal(env[i])
  ELSE GetenvFrom(env, key, i + 1)

Getenv(env, key) == GetenvFrom(env, key, 1)

WasReborn(env) == Getenv(env, MARK_NAME) = MARK_VALUE

\* os.Environ() and os.Args of a caller process
OsEnviron == << <<"PATH", "=", "/bin">> >>
OsArgs == << <<"prog">>, <<"-d">> >>

\* ------------------------------------------------------------- Context
\* the exported (serializable) fields of Context
Context(pidName, pidPerm, logName, logPerm, workDir, chroot, env, args, cred, umask) ==
  [PidFileName |-> pidName, PidFilePerm |-> pidPerm,
   LogFileName |-> logName, LogFilePerm |-> logPerm,
   WorkDir |-> workDir, Chroot |-> chroot,
   Env |-> env, Args |-> args,
   Credential |-> cred, Umask |-> umask]

PidPath == <<"run.pid">>
BadPidPath == <<"run", BAD, ".pid">>
LogPath == <<"run.log">>
PidPaths == {PidPath, BadPidPath}

\* contexts of the "race" scenario: every call names the same pid file
RaceContexts ==
  { Context(PidPath, 0, <<>>, 0, <<>>, <<>>, <<>>, <<>>, <<>>, 0) }

Credentials ==
  {<<>>} \cup { <<[Uid |-> u, Gid |-> g]>> : u \in {0, 1000}, g \in {0, 100} }

\* contexts of the "handoff" scenario: the paths, permissions, environment and
\* arguments vary in the first family, what the child applies in the second
HandoffContexts ==
  { Context(pn, pp, ln, lp, <<"/", BAD>>, <<>>, ev, ar, <<>>, 0) :
      pn \in {<<>>, PidPath, BadPidPath}, pp \in {0, 384},
      ln \in {<<>>, LogPath}, lp \in {0, 384},
      ev \in {<<>>, << <<"A", "=", "b">> >>, << MARK_NAME \o <<"=", "0">> >>},
      ar \in {<<>>, << <<"prog">>, <<"x", BAD>> >>} }
  \cup
  { Context(pn, 0, <<>>, 0, <<>>, ch, <<>>, <<>>, cr, um) :
      pn \in {<<>>, PidPath}, ch \in {<<>>, <<"/jail">>},
      cr \in Credentials, um \in {0, 18} }

\* the caller processes
Procs == {1, 2}

\* the context of the "life" scenario, in which the commands Start, Status,
\* Stop and Kill are run one after another on one pid file
LifeContexts ==
  { Context(PidPath, 0, LogPath, 0, <<>>, <<>>, <<>>, <<>>, <<>>, 0) }

Contexts(s) ==
  IF s = "race" THEN RaceContexts
  ELSE IF s = "life" THEN LifeContexts ELSE HandoffContexts
\* the processes that call Reborn directly
Callers(s) == IF s = "race" THEN Procs ELSE IF s = "handoff" THEN {1} ELSE {}
CallLimit(s) == IF s \in {"race", "life"} THEN MaxCalls ELSE 1
ChildCallLimit(s) == IF s \in {"race", "life"} THEN 1 ELSE MaxChildCalls

\* ------------------------------------------------- prepareEnv, openFiles
\* prepareEnv as it would be with os.Setenv(MARK_NAME, MARK_VALUE) in it
prepareEnvSetenv(d, environ, args) ==
  LET withArgs == IF Len(d.Args) = 0 THEN [d EXCEPT !.Args = args] ELSE d
      withEnv == IF Len(withArgs.Env) = 0
                 THEN [withArgs EXCEPT !.Env = environ] ELSE withArgs
  IN  [d |-> [withEnv EXCEPT !.Env = Append(@, Sprintf(MARK_NAME, MARK_VALUE))],
       environ |-> <<Sprintf(MARK_NAME, MARK_VALUE)>> \o environ]

\* prepareEnv: default the arguments and the environment, append the mark.
\* Yields the Context and the calling process's own environment afterwards.
prepareEnv(d, environ, args) ==
  LET withArgs == IF Len(d.Args) = 0 THEN [d EXCEPT !.Args = args] ELSE d
      withEnv == IF Len(withArgs.Env) = 0
                 THEN [withArgs EXCEPT !.Env = environ] ELSE withArgs
  IN  [d |-> [withEnv EXCEPT !.Env = Append(@, Sprintf(MARK_NAME, MARK_VALUE))],
       environ |-> environ]

\* openFiles, its first lines: zero permissions become FILE_PERM
defaultPerms(d) ==
  [d EXCEPT !.PidFilePerm = IF @ = 0 THEN FILE_PERM ELSE @,
            !.LogFilePerm = IF @ = 0 THEN FILE_PERM ELSE @]

\* ------------------------------------------------ encoding/json handoff
\* a JSON string: invalid UTF-8 is coerced to U+FFFD
ToValidUTF8(s) == [i \in DOMAIN s |-> IF s[i] = BAD THEN REPLACEMENT ELSE s[i]]
JsonStrings(ss) == [i \in DOMAIN ss |-> ToValidUTF8(ss[i])]

\* json.NewEncoder(d.wpipe).Encode(d): one message holding the exported fields
Encode(d) ==
  [PidFileName |-> ToValidUTF8(d.PidFileName), PidFilePerm |-> d.PidFilePerm,
   LogFileName |-> ToValidUTF8(d.LogFileName), LogFilePerm |-> d.LogFilePerm,
   WorkDir |-> ToValidUTF8(d.WorkDir), Chroot |-> ToValidUTF8(d.Chroot),
   Env |-> JsonStrings(d.Env), Args |-> JsonStrings(d.Args),
   Credential |-> d.Credential, Umask |-> d.Umask]

\* Decode as it would be if Args and Umask were not exported fields
DecodeWithoutArgs(msg, d) ==
  [d EXCEPT !.PidFileName = msg.PidFileName, !.PidFilePerm = msg.PidFilePerm,
            !.LogFileName = msg.LogFileName, !.LogFilePerm = msg.LogFilePerm,
            !.WorkDir = msg.WorkDir, !.Chroot = msg.Chroot,
            !.Env = msg.Env, !.Credential = msg.Credential]

\* json.NewDecoder(os.Stdin).Decode(d): every field of the message overwrites d's
Decode(msg, d) ==
  [d EXCEPT !.PidFileName = msg.PidFileName, !.PidFilePerm = msg.PidFilePerm,
            !.LogFileName = msg.LogFileName, !.LogFilePerm = msg.LogFilePerm,
            !.WorkDir = msg.WorkDir, !.Chroot = msg.Chroot,
            !.Env = msg.Env, !.Args = msg.Args,
            !.Credential = msg.Credential, !.Umask = msg.Umask]

\* the handoff as it would be with the result of Encode dropped
encodeErrDropped(written) == Nil

\* the error parent() returns after the handoff write
encodeErr(written) == IF written THEN Nil ELSE "EPIPE"


\* ------------------------------------------------------ descriptor table
Fd(kind, id) == [kind |-> kind, id |-> id]
ClosedFd == Fd("closed", 0)

\* files() with the pid file put before the spare null device
filesPidBeforeNull(nonnil, k) ==
  LET log == IF "logFile" \in nonnil THEN Fd("log", k) ELSE Fd("null", k)
  IN  << Fd("rpipe", k), log, log >>
      \o (IF "pidFile" \in nonnil THEN << Fd("pid", k) >> ELSE << >>)
      \o << Fd("null", k) >>

\* files(): the descriptor table handed to os.StartProcess by call k, from the
\* handle fields of the Context that are not nil
files(nonnil, k) ==
  LET log == IF "logFile" \in nonnil THEN Fd("log", k) ELSE Fd("null", k)
  IN  << Fd("rpipe", k), log, log, Fd("null", k) >>
      \o (IF "pidFile" \in nonnil THEN << Fd("pid", k) >> ELSE << >>)

\* closeFiles() as it would be without cl(&d.logFile)
closeFilesSkipLog(nonnil, open) ==
  [nonnil |-> nonnil \cap {"logFile"}, open |-> open \ (nonnil \ {"logFile"})]

\* closeFiles(): every handle field that is not nil is closed and set to nil
closeFiles(nonnil, open) == [nonnil |-> {}, open |-> open \ nonnil]

\* the failed-spawn branch as it would be without the call of Remove
removeNever(nonnil) == FALSE

\* parent(), the failed-spawn branch: Remove is called when pidFile is not nil
removeOnSpawnFailure(nonnil) == "pidFile" \in nonnil

\* ------------------------------------------------------------ child path
\* the outcomes of a system call of the parent path: every call can fail in the
\* "handoff" scenario, the spawn alone in the "race" and "life" scenarios
Outcomes(s, step) ==
  IF s \in {"race", "life"} /\ step # "spawn" THEN {TRUE} ELSE BOOLEAN

\* the system calls of child() that can fail on their own; their failures are
\* explored in the "handoff" scenario
FailableSteps(s) ==
  IF s \in {"race", "life"} THEN {}
  ELSE {"close0", "dup2", "writepid", "chroot", "setgid", "setuid"}

\* one step of child(): the call is made and its result assigned to err
Attempt(s, name, fails, e) ==
  IF s.ret THEN s
  ELSE [s EXCEPT !.c.did = Append(@, name),
                 !.c.failed = IF fails THEN @ \cup {name} ELSE @,
                 !.err = IF fails THEN e ELSE Nil]

\* "if err != nil { return }"
ReturnIfErr(s) == IF s.ret \/ s.err = Nil THEN s ELSE [s EXCEPT !.ret = TRUE]

\* child() as it would be without the guard
childGuardMissing(c) ==
  [c |-> [c EXCEPT !.initialized = TRUE], err |-> Nil, ret |-> FALSE]

\* the guard: "if initialized { return os.ErrInvalid }; initialized = true"
childGuard(c) ==
  IF c.initialized
  THEN [c |-> c, err |-> ErrInvalid, ret |-> TRUE]
  ELSE [c |-> [c EXCEPT !.initialized = TRUE], err |-> Nil, ret |-> FALSE]

\* decode one message from descriptor 0; stdin is << >> at end of file
childDecode(s, stdin) ==
  LET a == ReturnIfErr(Attempt(s, "decode", stdin = << >>, "EOF"))
  IN  IF a.ret THEN a ELSE [a EXCEPT !.c.d = Decode(stdin[1], @)]

\* syscall.Close(0); syscall.Dup2(3, 0)
childRewire(s, F) ==
  LET a == ReturnIfErr(Attempt(s, "close0", "close0" \in F, "EBADF"))
      b == IF a.ret THEN a ELSE [a EXCEPT !.c.fds[1] = ClosedFd]
      noFd3 == Len(b.c.fds) < 4 \/ b.c.fds[4] = ClosedFd
      e == ReturnIfErr(Attempt(b, "dup2", "dup2" \in F \/ noFd3, "EBADF"))
  IN  IF e.ret THEN e ELSE [e EXCEPT !.c.fds[1] = e.c.fds[4]]

\* wrap descriptor 4 as the pid file and write the pid, when a path is configured
childWritePid(s, F) ==
  IF s.ret \/ Len(s.c.d.PidFileName) = 0 THEN s
  ELSE LET noFd4 == Len(s.c.fds) < 5 \/ s.c.fds[5].kind # "pid"
       IN  ReturnIfErr(Attempt(s, "writepid", "writepid" \in F \/ noFd4, "EBADF"))

\* syscall.Umask: no result is assigned to err
childUmask(s) ==
  IF s.ret \/ s.c.d.Umask = 0 THEN s ELSE [s EXCEPT !.c.did = Append(@, "umask")]

\* "err = syscall.Chroot(d.Chroot)", with no return after it
childChroot(s, F) ==
  IF s.ret \/ Len(s.c.d.Chroot) = 0 THEN s
  ELSE Attempt(s, "chroot", "chroot" \in F, "ENOENT")

\* the credential step as it would be with the user id changed first
childCredentialUidFirst(s, F) ==
  IF s.ret \/ s.c.d.Credential = << >> THEN s
  ELSE LET u == IF s.c.d.Credential[1].Uid > 0
                THEN ReturnIfErr(Attempt(s, "setuid", "setuid" \in F, "EPERM"))
                ELSE s
       IN  IF u.ret \/ u.c.d.Credential[1].Gid = 0 THEN u
           ELSE ReturnIfErr(Attempt(u, "setgid", "setgid" \in F, "EPERM"))

\* Setgid, then Setuid, each when its configured value is above zero
childCredential(s, F) ==
  IF s.ret \/ s.c.d.Credential = << >> THEN s
  ELSE LET g == IF s.c.d.Credential[1].Gid > 0
                THEN ReturnIfErr(Attempt(s, "setgid", "setgid" \in F, "EPERM"))
                ELSE s
       IN  IF g.ret \/ g.c.d.Credential[1].Uid = 0 THEN g
           ELSE ReturnIfErr(Attempt(g, "setuid", "setuid" \in F, "EPERM"))

\* child(): the process image after the invocation; rets gets the returned error
childPath(c, stdin, F) ==
  LET s == childCredential(childChroot(childUmask(childWritePid(
             childRewire(childDecode(childGuard(c), stdin), F), F)), F), F)
  IN  [s.c EXCEPT !.rets = Append(@, s.err)]


\* ------------------------------------------------------- util_posix.go
\* an executable path is a sequence of characters; its last component is drawn
\* from NameChars and has at most MaxNameLen characters
NameChars == {"a", "d"}

Names ==
  UNION { [1 .. n -> NameChars] : n \in 1 .. MaxNameLen }

ExecPaths == { <<"/">> \o n : n \in Names }

\* what the kernel appends to the target of /proc/<pid>/exe once the file is
\* unlinked or replaced
DeletedMarker == <<" ", "(", "d", "e", "l", "e", "t", "e", "d", ")">>

\* the targets os.Readlink can yield for a /proc/<pid>/exe link
LinkTargets == ExecPaths \cup { e \o DeletedMarker : e \in ExecPaths }

\* strings.TrimRight(s, cutset): every trailing character that occurs in cutset
\* is removed
RECURSIVE TrimRight(_, _)
TrimRight(s, cutset) ==
  IF Len(s) > 0 /\ s[Len(s)] \in { cutset[i] : i \in DOMAIN cutset }
  THEN TrimRight(SubSeq(s, 1, Len(s) - 1), cutset)
  ELSE s

\* GetExecPath: link is << >> when os.Readlink fails, else <<target>>; the
\* result is << >> for an error, else <<path>>
GetExecPath(link) ==
  IF link = << >> THEN << >>
  ELSE << TrimRight(link[1], DeletedMarker) >>

\* math.Abs of an integer difference
Abs(x) == IF x < 0 THEN 0 - x ELSE x

\* the window of the modification-time comparison, in seconds
Tolerance == 60

\* IsProcessRunning(pid, pidfiles...). The query q holds what the calls read:
\*   myLink    the /proc/<own pid>/exe link, << >> when unreadable
\*   link      the /proc/<pid>/exe link, << >> when unreadable
\*   pidfiles  the variadic argument: << >>, or <<st>> with st the os.Stat of
\*             the pid file, << >> on error, else <<mtime>>
\*   procStat  os.Stat of /proc/<pid>/stat: << >> on error, else
\*             <<[mtime, comm]>>, comm being the short name the file holds
IsProcessRunning(q) ==
  LET my_path == GetExecPath(q.myLink)
      exe_path == GetExecPath(q.link)
  IN  IF my_path = << >> THEN FALSE
      ELSE IF exe_path = << >> THEN FALSE
      ELSE IF my_path = exe_path THEN TRUE
      ELSE IF Len(q.pidfiles) > 0
           THEN LET pidfile_s == q.pidfiles[1]
                    proc_s == q.procStat
                IN  IF pidfile_s = << >> THEN FALSE
                    ELSE IF proc_s = << >> THEN FALSE
                    ELSE Abs(pidfile_s[1] - proc_s[1].mtime) < Tolerance
           ELSE FALSE

\* os.Stat of a pid file that exists, and the modification times a
\* /proc/<pid>/stat can have around it, in seconds
PidFileStat == <<100>>
StatTimes == {39, 40, 41, 100, 159, 160, 161}

\* the queries of the oracle taken on its own
Queries ==
  [myLink   : {<< >>} \cup { <<t>> : t \in LinkTargets },
   link     : {<< >>} \cup { <<t>> : t \in LinkTargets },
   pidfiles : {<< >>, << << >> >>, <<PidFileStat>>},
   procStat : {<< >>} \cup
              { <<[mtime |-> t, comm |-> n]>> :
                  t \in StatTimes, n \in { <<c>> : c \in NameChars } }]


\* ================================================================ state
VARIABLES
  scenario,  \* "race": concurrent callers; "handoff": one call, every field varies
  calls,     \* Reborn calls begun on the parent path; a call's number names its
             \* pid-file description, its pipe and the process it spawns
  par,       \* per caller process: position in parent() and its Context
  environ,   \* per caller process: the process's own environment
  pidPath,   \* directory: pid-file path -> inode (0: no such file)
  pidData,   \* per inode: the pid written in the file (0: empty)
  ofd,       \* per call: the open file description of OpenLockFile
  pipes,     \* per call: the handoff pipe
  child,     \* per call: the spawned process image
  oracle,    \* the liveness oracle on its own: a query and the answers given
  life       \* the lifecycle commands: signals sent, pids taken over, outputs

vars ==
  <<scenario, calls, par, environ, pidPath, pidData, ofd, pipes, child,
    oracle, life>>

CallIds == 1 .. MaxCalls
Handles == {"nullFile", "pidFile", "logFile", "rpipe", "wpipe"}

ZeroContext == Context(<<>>, 0, <<>>, 0, <<>>, <<>>, <<>>, <<>>, <<>>, 0)

\* a caller that has not called Reborn
IdleCaller ==
  [pc |-> "idle", k |-> 0, d |-> ZeroContext, sup |-> ZeroContext,
   nonnil |-> {}, open |-> {}, child |-> 0, err |-> Nil,
   panicking |-> FALSE, failedAt |-> "none", heldBefore |-> FALSE]

NoOfd == [inode |-> 0, path |-> <<>>, locked |-> FALSE, holders |-> {}]
NoPipe == [msg |-> <<>>, readers |-> {}, wopen |-> FALSE]
NoChild ==
  [st |-> "none", env |-> <<>>, fds |-> <<>>, initialized |-> FALSE,
   d |-> ZeroContext, sup |-> ZeroContext, sent |-> ZeroContext,
   did |-> <<>>, failed |-> {}, rets |-> <<>>]

\* the oracle before a query is put to it
NoOracle ==
  [q |-> [myLink |-> << >>, link |-> << >>, pidfiles |-> << >>, procStat |-> << >>],
   asked |-> {}, exec |-> << >>, running |-> FALSE]

\* no command run yet: cur is the command in progress, n the commands begun,
\* sig the pids signalled, taken the unrelated process that now has a pid
\* (<< >>: none), out what the finished commands printed
NoLife ==
  [cur |-> "none", n |-> 0, sig |-> {},
   taken |-> [k \in CallIds |-> << >>], out |-> << >>]

Init ==
  /\ scenario \in {"race", "handoff"}
  /\ calls = 0
  /\ par = [p \in Procs |-> IdleCaller]
  /\ environ = [p \in Procs |-> OsEnviron]
  /\ pidPath = [n \in PidPaths |-> 0]
  /\ pidData = [i \in CallIds |-> 0]
  /\ ofd = [k \in CallIds |-> NoOfd]
  /\ pipes = [k \in CallIds |-> NoPipe]
  /\ child = [k \in CallIds |-> NoChild]
  /\ oracle = NoOracle
  /\ life = NoLife

\* the position after the null device, and after the pid file, is open
afterNull(d) ==
  IF Len(d.PidFileName) > 0 THEN "openPid"
  ELSE IF Len(d.LogFileName) > 0 THEN "openLog" ELSE "pipe"
afterPid(d) == IF Len(d.LogFileName) > 0 THEN "openLog" ELSE "pipe"

\* openFiles returns err; parent() panics with it, the deferred closeFiles runs
failOpen(c, e, at) ==
  [c EXCEPT !.err = e, !.panicking = TRUE, !.failedAt = at, !.pc = "closeFiles"]

\* ------------------------------------------------------------ LockFile
\* OpenLockFile(name, perm), for call k: the path is opened, and created when
\* no file has the name; a description of its own is the result
openLockFile(n, k) ==
  LET ino == IF pidPath[n] # 0 THEN pidPath[n] ELSE k
  IN  [dir |-> [pidPath EXCEPT ![n] = ino],
       ofd |-> [inode |-> ino, path |-> n, locked |-> FALSE, holders |-> {"parent"}]]

\* Lock() fails when the lock of inode i is held through a description other
\* than k's
lockedByOther(k, i) == \E j \in CallIds \ {k} : ofd[j].inode = i /\ ofd[j].locked

\* Remove(), for call k: the lock is released, the backing file unlinked when
\* the path still names it, the descriptor closed
lockFileRemove(k) ==
  [dir |-> [pidPath EXCEPT ![ofd[k].path] = IF @ = ofd[k].inode THEN 0 ELSE @],
   ofd |-> [ofd[k] EXCEPT !.locked = FALSE, !.holders = @ \ {"parent"}]]

\* WritePid(), through a descriptor of inode i: the file holds the pid
writePid(i, pid) == [pidData EXCEPT ![i] = pid]

\* a lock taken through path n is held through a description other than k's
pathLockedByOther(k, n) == \E j \in CallIds \ {k} : ofd[j].path = n /\ ofd[j].locked

\* ------------------------------------------------------- parent path
\* Reborn in a process without the mark: parent() begins, prepareEnv runs
Call(p) ==
  /\ p \in Callers(scenario)
  /\ par[p].pc \in {"idle", "returned", "panicked"}
  /\ ~WasReborn(environ[p])
  /\ calls < CallLimit(scenario)
  /\ calls' = calls + 1
  /\ \E d \in Contexts(scenario), ok \in Outcomes(scenario, "prepareEnv") :
       LET r == prepareEnv(d, environ[p], OsArgs)
           c == [IdleCaller EXCEPT !.k = calls + 1, !.sup = d, !.d = d]
       IN  /\ environ' = [environ EXCEPT ![p] = IF ok THEN r.environ ELSE @]
           /\ par' = [par EXCEPT ![p] =
                 IF ok THEN [c EXCEPT !.d = r.d, !.pc = "openNull"]
                 ELSE [c EXCEPT !.err = "ENOENT", !.panicking = TRUE,
                                !.failedAt = "prepareEnv", !.pc = "panicked"]]
  /\ UNCHANGED <<oracle, life, scenario, pidPath, pidData, ofd, pipes, child>>

\* openFiles: default permissions, os.Open(os.DevNull)
OpenNull(p) ==
  /\ par[p].pc = "openNull"
  /\ \E ok \in Outcomes(scenario, "openNull") :
       LET c == [par[p] EXCEPT !.d = defaultPerms(@)]
       IN  par' = [par EXCEPT ![p] =
             IF ok THEN [c EXCEPT !.nonnil = @ \cup {"nullFile"},
                                  !.open = @ \cup {"nullFile"},
                                  !.pc = afterNull(c.d)]
             ELSE failOpen(c, "ENFILE", "openNull")]
  /\ UNCHANGED <<oracle, life, scenario, calls, environ, pidPath, pidData, ofd, pipes, child>>

\* openFiles: OpenLockFile opens the pid file, creating it when it is absent
OpenPid(p) ==
  LET c == par[p]
      o == openLockFile(c.d.PidFileName, c.k)
  IN  /\ c.pc = "openPid"
      /\ \E ok \in Outcomes(scenario, "openPid") :
           IF ok
           THEN /\ pidPath' = o.dir
                /\ ofd' = [ofd EXCEPT ![c.k] = o.ofd]
                /\ par' = [par EXCEPT ![p].nonnil = @ \cup {"pidFile"},
                                      ![p].open = @ \cup {"pidFile"},
                                      ![p].pc = "lock"]
           ELSE /\ par' = [par EXCEPT ![p] = failOpen(c, "EACCES", "openPid")]
                /\ UNCHANGED <<pidPath, ofd>>
      /\ UNCHANGED <<oracle, life, scenario, calls, environ, pidData, pipes, child>>

\* openFiles: d.pidFile.Lock(), a non-blocking exclusive flock
LockPid(p) ==
  LET c == par[p]
      held == lockedByOther(c.k, ofd[c.k].inode)
      seen == [c EXCEPT !.heldBefore = pathLockedByOther(c.k, c.d.PidFileName)]
  IN  /\ c.pc = "lock"
      /\ ofd' = [ofd EXCEPT ![c.k].locked = ~held]
      /\ par' = [par EXCEPT ![p] =
            IF held THEN failOpen(seen, ErrWouldBlock, "lock")
            ELSE [seen EXCEPT !.pc = afterPid(c.d)]]
      /\ UNCHANGED <<oracle, life, scenario, calls, environ, pidPath, pidData, pipes, child>>

\* openFiles: the log file is opened for append
OpenLog(p) ==
  /\ par[p].pc = "openLog"
  /\ \E ok \in Outcomes(scenario, "openLog") :
       par' = [par EXCEPT ![p] =
         IF ok THEN [@ EXCEPT !.nonnil = @ \cup {"logFile"},
                              !.open = @ \cup {"logFile"}, !.pc = "pipe"]
         ELSE failOpen(@, "EACCES", "openLog")]
  /\ UNCHANGED <<oracle, life, scenario, calls, environ, pidPath, pidData, ofd, pipes, child>>

\* openFiles: os.Pipe()
Pipe(p) ==
  LET c == par[p]
  IN  /\ c.pc = "pipe"
      /\ \E ok \in Outcomes(scenario, "pipe") :
           IF ok
           THEN /\ pipes' = [pipes EXCEPT ![c.k] =
                     [msg |-> <<>>, readers |-> {"parent"}, wopen |-> TRUE]]
                /\ par' = [par EXCEPT ![p].nonnil = @ \cup {"rpipe", "wpipe"},
                                      ![p].open = @ \cup {"rpipe", "wpipe"},
                                      ![p].pc = "spawn"]
           ELSE /\ par' = [par EXCEPT ![p] = failOpen(c, "EMFILE", "pipe")]
                /\ UNCHANGED pipes
      /\ UNCHANGED <<oracle, life, scenario, calls, environ, pidPath, pidData, ofd, child>>


\* the pid of the process spawned by call k
Pid(k) == k

\* os.StartProcess(d.abspath, d.Args, attr) with Files: d.files(), Env: d.Env;
\* on failure Remove is called when the pid file is open, then panic(err)
Spawn(p) ==
  LET c == par[p]
      f == files(c.nonnil, c.k)
      inherits(kind) == \E i \in DOMAIN f : f[i].kind = kind
  IN  /\ c.pc = "spawn"
      /\ \E ok \in Outcomes(scenario, "spawn") :
           IF ok
           THEN /\ child' = [child EXCEPT ![c.k] =
                     [NoChild EXCEPT !.st = "alive", !.env = c.d.Env, !.fds = f,
                                     !.d = c.sup, !.sup = c.sup, !.sent = c.d]]
                /\ ofd' = [ofd EXCEPT ![c.k].holders =
                     IF inherits("pid") THEN @ \cup {"child"} ELSE @]
                /\ pipes' = [pipes EXCEPT ![c.k].readers =
                     IF inherits("rpipe") THEN @ \cup {"child"} ELSE @]
                /\ par' = [par EXCEPT ![p].child = c.k, ![p].pc = "handoff"]
           ELSE /\ par' = [par EXCEPT ![p].err = "ENOEXEC", ![p].panicking = TRUE,
                                      ![p].failedAt = "spawn",
                                      ![p].pc = IF removeOnSpawnFailure(c.nonnil)
                                                THEN "remove" ELSE "closeFiles"]
                /\ UNCHANGED <<child, ofd, pipes>>
      /\ UNCHANGED <<oracle, life, scenario, calls, environ, pidPath, pidData>>

\* the failed-spawn branch: d.pidFile.Remove(), before panic(err)
RemovePid(p) ==
  LET c == par[p]
      r == lockFileRemove(c.k)
  IN  /\ c.pc = "remove"
      /\ ofd' = [ofd EXCEPT ![c.k] = r.ofd]
      /\ pidPath' = r.dir
      /\ par' = [par EXCEPT ![p].open = @ \ {"pidFile"}, ![p].pc = "closeFiles"]
      /\ UNCHANGED <<oracle, life, scenario, calls, environ, pidData, pipes, child>>

\* d.rpipe.Close(); err = encoder.Encode(d): the write fails when no process
\* holds the read end any more
Handoff(p) ==
  LET c == par[p]
      readers == pipes[c.k].readers \ {"parent"}
      written == readers # {}
  IN  /\ c.pc = "handoff"
      /\ pipes' = [pipes EXCEPT ![c.k].readers = readers,
                                ![c.k].msg = IF written THEN <<Encode(c.d)>> ELSE <<>>]
      /\ par' = [par EXCEPT ![p].open = @ \ {"rpipe"},
                            ![p].err = encodeErr(written),
                            ![p].failedAt = IF written THEN "none" ELSE "encode",
                            ![p].pc = "closeFiles"]
      /\ UNCHANGED <<oracle, life, scenario, calls, environ, pidPath, pidData, ofd, child>>

\* the deferred closeFiles(), then parent() returns or the panic goes on to the
\* caller of Reborn
CloseFiles(p) ==
  LET c == par[p]
      r == closeFiles(c.nonnil, c.open)
      closed(h) == h \in c.open /\ h \notin r.open
      holders == IF closed("pidFile") THEN ofd[c.k].holders \ {"parent"}
                 ELSE ofd[c.k].holders
  IN  /\ c.pc = "closeFiles"
      /\ ofd' = [ofd EXCEPT ![c.k].holders = holders,
                            ![c.k].locked = @ /\ holders # {}]
      /\ pipes' = [pipes EXCEPT ![c.k].wopen = @ /\ ~closed("wpipe"),
                                ![c.k].readers =
                                   IF closed("rpipe") THEN @ \ {"parent"} ELSE @]
      /\ par' = [par EXCEPT ![p].nonnil = r.nonnil, ![p].open = r.open,
                            ![p].pc = IF c.panicking THEN "panicked" ELSE "returned"]
      /\ UNCHANGED <<oracle, life, scenario, calls, environ, pidPath, pidData, child>>

\* ---------------------------------------------------------- child side
\* Reborn in a spawned process that carries the mark: child(). The decoder
\* blocks until descriptor 0 has a message or is at end of file.
ChildReborn(k) ==
  LET c == child[k]
      in == c.fds[1]
      onPipe == in.kind = "rpipe"
      ready == IF ~c.initialized /\ onPipe
               THEN ~(pipes[in.id].msg = <<>> /\ pipes[in.id].wopen)
               ELSE TRUE
      stdin == IF onPipe THEN pipes[in.id].msg ELSE <<>>
      newly(n, step) ==
        \E i \in (Len(c.did) + 1) .. Len(n.did) : n.did[i] = step
  IN  /\ c.st = "alive"
      /\ WasReborn(c.env)
      /\ Len(c.rets) < ChildCallLimit(scenario)
      /\ ready
      /\ \E F \in SUBSET (IF c.initialized THEN {} ELSE FailableSteps(scenario)) :
           LET n == childPath(c, stdin, F)
               wrote == newly(n, "writepid") /\ "writepid" \notin n.failed
               closed0 == onPipe /\ n.fds[1] # in
               read == onPipe /\ newly(n, "decode") /\ stdin # <<>>
           IN  /\ child' = [child EXCEPT ![k] = n]
               /\ pidData' = IF wrote THEN writePid(ofd[n.fds[5].id].inode, Pid(k))
                             ELSE pidData
               /\ pipes' = IF onPipe
                           THEN [pipes EXCEPT
                                  ![in.id].msg = IF read THEN <<>> ELSE @,
                                  ![in.id].readers =
                                     IF closed0 THEN @ \ {"child"} ELSE @]
                           ELSE pipes
      /\ UNCHANGED <<oracle, life, scenario, calls, par, environ, pidPath, ofd>>

\* Reborn in a spawned process whose environment does not yield the mark:
\* WasReborn is false and the process takes the parent path itself
ChildRebornParent(k) ==
  LET c == child[k]
  IN  /\ c.st = "alive"
      /\ ~WasReborn(c.env)
      /\ c.did = << >>
      /\ child' = [child EXCEPT ![k].did = <<"parent">>]
      /\ UNCHANGED <<oracle, life, scenario, calls, par, environ, pidPath,
                     pidData, ofd, pipes>>

\* the spawned process ends (exit, crash or kill): its descriptors are closed,
\* a lock held only through them is gone
ChildExit(k) ==
  LET holders == ofd[k].holders \ {"child"}
  IN  /\ child[k].st = "alive"
      /\ child' = [child EXCEPT ![k] = [NoChild EXCEPT !.st = "exited"]]
      /\ ofd' = [ofd EXCEPT ![k].holders = holders, ![k].locked = @ /\ holders # {}]
      /\ pipes' = [pipes EXCEPT ![k].readers = @ \ {"child"}]
      /\ UNCHANGED <<oracle, life, scenario, calls, par, environ, pidPath, pidData>>

Next ==
  \/ \E p \in Procs :
       \/ Call(p)
       \/ OpenNull(p)
       \/ OpenPid(p)
       \/ LockPid(p)
       \/ OpenLog(p)
       \/ Pipe(p)
       \/ Spawn(p)
       \/ RemovePid(p)
       \/ Handoff(p)
       \/ CloseFiles(p)
  \/ \E k \in CallIds :
       \/ ChildReborn(k)
       \/ ChildRebornParent(k)
       \/ ChildExit(k)

Spec == Init /\ [][Next]_vars

\* ------------------------------------------------- the oracle on its own
\* every variable of the rebirth protocol at rest
AtRest ==
  /\ calls = 0
  /\ par = [p \in Procs |-> IdleCaller]
  /\ environ = [p \in Procs |-> OsEnviron]
  /\ pidPath = [n \in PidPaths |-> 0]
  /\ pidData = [i \in CallIds |-> 0]
  /\ ofd = [k \in CallIds |-> NoOfd]
  /\ pipes = [k \in CallIds |-> NoPipe]
  /\ child = [k \in CallIds |-> NoChild]

InitOracle ==
  /\ scenario = "oracle"
  /\ AtRest
  /\ life = NoLife
  /\ oracle \in { [NoOracle EXCEPT !.q = q] : q \in Queries }

\* GetExecPath(pid) is called
AskExecPath ==
  /\ scenario = "oracle"
  /\ "GetExecPath" \notin oracle.asked
  /\ oracle' = [oracle EXCEPT !.asked = @ \cup {"GetExecPath"},
                              !.exec = GetExecPath(oracle.q.link)]
  /\ UNCHANGED <<scenario, calls, par, environ, pidPath, pidData, ofd, pipes,
                 child, life>>

\* IsProcessRunning(pid) or IsProcessRunning(pid, pidfile) is called
AskRunning ==
  /\ scenario = "oracle"
  /\ "IsProcessRunning" \notin oracle.asked
  /\ oracle' = [oracle EXCEPT !.asked = @ \cup {"IsProcessRunning"},
                              !.running = IsProcessRunning(oracle.q)]
  /\ UNCHANGED <<scenario, calls, par, environ, pidPath, pidData, ofd, pipes,
                 child, life>>

NextOracle == AskExecPath \/ AskRunning

SpecOracle == InitOracle /\ [][NextOracle]_vars

\* ---------------------------------------------------- lifecycle commands
\* Each command is a run of the program in a process of its own, which ends in
\* os.Exit or a panic; the commands are run one after another by process 1.
\* The reads a command makes before it acts (pid file, /proc) are one step.

\* the executable of the program, run by the commands and by the daemon
ProgramExe == <<"/", "a", "d">>

\* the unrelated processes that can get the pid of a daemon that is gone:
\* their executable link and the os.Stat of their /proc/<pid>/stat
Strangers ==
  { [link |-> <<e>>,
     procStat |-> <<[mtime |-> PidFileStat[1] + dt, comm |-> <<"a">>]>>] :
      e \in { <<"/", "a">>, <<"/", "a", "a">> }, dt \in {59, 61} }

\* ReadPidFile(name): the pid in the file, 0 for the error of a missing or
\* empty file
readPidFile(n) == IF pidPath[n] = 0 THEN 0 ELSE pidData[pidPath[n]]

\* Search: << >> is a nil process with an error, <<pid>> the process found
Search(d) ==
  IF Len(d.PidFileName) > 0
  THEN IF readPidFile(d.PidFileName) = 0 THEN << >>
       ELSE << readPidFile(d.PidFileName) >>
  ELSE << 0 >>

LiveDaemons == { k \in CallIds : child[k].st = "alive" }

\* what /proc holds for a pid: the daemon spawned with it while it lives, the
\* unrelated process that has taken it afterwards, else nothing
procExe(pid) ==
  IF pid \in LiveDaemons THEN <<ProgramExe>>
  ELSE IF pid \in CallIds /\ life.taken[pid] # << >> THEN life.taken[pid][1].link
  ELSE << >>

procStat(pid) ==
  IF pid \in LiveDaemons
  THEN <<[mtime |-> PidFileStat[1], comm |-> <<"a", "d">>]>>
  ELSE IF pid \in CallIds /\ life.taken[pid] # << >>
       THEN life.taken[pid][1].procStat
  ELSE << >>

\* IsProcessRunning(p.Pid, d.PidFileName) in a command
running(pid, d) ==
  IsProcessRunning(
    [myLink |-> <<ProgramExe>>, link |-> procExe(pid),
     pidfiles |-> << IF pidPath[d.PidFileName] # 0 THEN PidFileStat ELSE << >> >>,
     procStat |-> procStat(pid)])

\* getRunningProcess: the process Search finds, when the oracle says it runs
getRunningProcess(d) ==
  IF Search(d) # << >> /\ running(Search(d)[1], d) THEN Search(d) ELSE << >>

\* fmt.Println and os.Exit (or the panic) of a command: pid is the process the
\* command dealt with, daemons the spawned processes alive at that moment
exit(l, cmd, printed, code, pid) ==
  [l EXCEPT !.cur = "none",
            !.out = Append(@, [cmd |-> cmd, printed |-> printed, code |-> code,
                               pid |-> pid, daemons |-> LiveDaemons])]

begin(l) == [l EXCEPT !.n = @ + 1]

\* Start: Search, the oracle, then Reborn on the parent path
Start(p) ==
  /\ scenario = "life" /\ p = 1
  /\ life.cur = "none" /\ life.n < MaxCommands
  /\ \E d \in Contexts(scenario) :
       IF Search(d) # << >> /\ running(Search(d)[1], d)
       THEN /\ life' = exit(begin(life), "start", "daemon already running", 1,
                            Search(d)[1])
            /\ UNCHANGED <<calls, par, environ>>
       ELSE LET r == prepareEnv(d, environ[p], OsArgs)
                c == [IdleCaller EXCEPT !.k = calls + 1, !.sup = d, !.d = r.d]
            IN  /\ calls < CallLimit(scenario)
                /\ calls' = calls + 1
                /\ environ' = [environ EXCEPT ![p] = r.environ]
                /\ par' = [par EXCEPT ![p] = [c EXCEPT !.pc = "openNull"]]
                /\ life' = [begin(life) EXCEPT !.cur = "start"]
  /\ UNCHANGED <<oracle, scenario, pidPath, pidData, ofd, pipes, child>>

\* Start after Reborn: "error:" and exit 1, "started" and exit 0, or the panic
\* of the parent path ends the process
StartExit(p) ==
  LET c == par[p]
  IN  /\ life.cur = "start"
      /\ c.pc \in {"returned", "panicked"}
      /\ life' = IF c.pc = "panicked" THEN exit(life, "start", "panic", 2, c.child)
                 ELSE IF c.err # Nil THEN exit(life, "start", "error", 1, c.child)
                 ELSE exit(life, "start", "started", 0, c.child)
      /\ UNCHANGED <<oracle, scenario, calls, par, environ, pidPath, pidData,
                     ofd, pipes, child>>

\* Status
Status(p) ==
  /\ scenario = "life" /\ p = 1
  /\ life.cur = "none" /\ life.n < MaxCommands
  /\ \E d \in Contexts(scenario) :
       life' = IF Search(d) = << >>
               THEN exit(begin(life), "status", "stopped", 1, 0)
               ELSE IF running(Search(d)[1], d)
               THEN exit(begin(life), "status", "running", 0, Search(d)[1])
               ELSE exit(begin(life), "status", "crashed", 1, Search(d)[1])
  /\ UNCHANGED <<oracle, scenario, calls, par, environ, pidPath, pidData,
                 ofd, pipes, child>>

\* p.Signal or p.Kill: delivered to the process that has the pid; for a
\* process of another user the call can fail
signalOutcomes(pid) == IF pid \in LiveDaemons THEN {TRUE} ELSE BOOLEAN

\* the part Stop and Kill share: no running process gives "not running" and
\* exit 1; else the signal is sent (panic on its error), the word printed, the
\* pid file removed by name, exit 0
terminate(p, cmd, word) ==
  /\ scenario = "life" /\ p = 1
  /\ life.cur = "none" /\ life.n < MaxCommands
  /\ \E d \in Contexts(scenario) :
       LET found == getRunningProcess(d)
       IN  IF found = << >>
           THEN /\ life' = exit(begin(life), cmd, "not running", 1, 0)
                /\ UNCHANGED pidPath
           ELSE \E ok \in signalOutcomes(found[1]) :
                  IF ok
                  THEN /\ life' = exit([begin(life) EXCEPT !.sig = @ \cup {found[1]}],
                                       cmd, word, 0, found[1])
                       /\ pidPath' = [pidPath EXCEPT ![d.PidFileName] = 0]
                  ELSE /\ life' = exit(begin(life), cmd, "panic", 2, found[1])
                       /\ UNCHANGED pidPath
  /\ UNCHANGED <<oracle, scenario, calls, par, environ, pidData, ofd, pipes, child>>

\* p.Wait() blocks only in the process that spawned p; in any other process
\* wait4 fails with ECHILD at once, and Stop drops the error. The process
\* that spawned a daemon is the one that ran Start, which has exited.
spawnedByCaller(p, pid) == life.cur = "start" /\ par[p].child = pid

waitReturns(p, pid) ==
  IF spawnedByCaller(p, pid) THEN pid \notin LiveDaemons ELSE TRUE

\* Stop: SIGTERM, p.Wait(), "stopped"
Stop(p) ==
  /\ \A d \in Contexts(scenario) :
       IF getRunningProcess(d) = << >> THEN TRUE
       ELSE waitReturns(p, getRunningProcess(d)[1])
  /\ terminate(p, "stop", "stopped")

\* Kill: SIGKILL, "killed"; Wait is not called
Kill(p) ==
  /\ p \in Procs
  /\ terminate(p, "kill", "killed")

\* an unrelated process is started and gets the pid of a daemon that is gone;
\* only a pid that a pid file still names is ever looked at again
Reuse(k) ==
  /\ scenario = "life"
  /\ child[k].st = "exited"
  /\ \E n \in PidPaths : readPidFile(n) = k
  /\ life.taken[k] = << >>
  /\ \E s \in Strangers : life' = [life EXCEPT !.taken[k] = <<s>>]
  /\ UNCHANGED <<oracle, scenario, calls, par, environ, pidPath, pidData,
                 ofd, pipes, child>>

InitLife ==
  /\ scenario = "life"
  /\ AtRest
  /\ oracle = NoOracle
  /\ life = NoLife

NextLife ==
  \/ \E p \in Procs :
       \/ Start(p)
       \/ StartExit(p)
       \/ Status(p)
       \/ Stop(p)
       \/ Kill(p)
       \/ OpenNull(p)
       \/ OpenPid(p)
       \/ LockPid(p)
       \/ OpenLog(p)
       \/ Pipe(p)
       \/ Spawn(p)
       \/ RemovePid(p)
       \/ Handoff(p)
       \/ CloseFiles(p)
  \/ \E k \in CallIds :
       \/ ChildReborn(k)
       \/ ChildExit(k)
       \/ Reuse(k)

SpecLife == InitLife /\ [][NextLife]_vars


\* =============================================================== claims
Finished(c) == c.pc \in {"returned", "panicked"}

\* caller p is inside parent() and holds the lock it took on its pid file
HoldsLock(p) ==
  /\ par[p].pc \in {"openLog", "pipe", "spawn", "remove", "handoff", "closeFiles"}
  /\ "pidFile" \in par[p].open
  /\ ofd[par[p].k].locked

\* C1: for a pid-file path, at most one Reborn holds the exclusive lock at a
\* time, and a Reborn that attempts the lock while a lock taken through the
\* same path is held fails at the lock step and spawns no process.
C1_OneLockHolderPerPath ==
  /\ \A p, q \in Procs :
       (p # q /\ HoldsLock(p) /\ HoldsLock(q))
         => par[p].d.PidFileName # par[q].d.PidFileName
  /\ \A p \in Procs :
       par[p].heldBefore => (par[p].failedAt = "lock" /\ par[p].child = 0)

\* C2: on the parent path Reborn always returns to its caller, either with a
\* process handle and no error or with an error; no failure reaches the caller
\* in another way.
C2_ParentReturnsHandleOrError ==
  \A p \in Procs :
    /\ par[p].pc # "panicked"
    /\ par[p].pc = "returned" =>
         \/ (par[p].child # 0 /\ par[p].err = Nil)
         \/ par[p].err # Nil

\* C3: when the spawn has failed after the lock was taken, then from the end of
\* the failure branch on, and so when the failure reaches the caller, the call's
\* description holds no lock, the parent holds no descriptor of the pid file and
\* the file it locked is no longer in the directory.
C3_NoOrphanedLock ==
  \A p \in Procs :
    (par[p].failedAt = "spawn" /\ par[p].pc \in {"closeFiles", "panicked"})
      => /\ ~ofd[par[p].k].locked
         /\ "parent" \notin ofd[par[p].k].holders
         /\ \A n \in PidPaths :
              ofd[par[p].k].inode # 0 => pidPath[n] # ofd[par[p].k].inode

\* a spawn failed with the lock taken, and the failure has reached the caller
C3_Witness ==
  \E p \in Procs :
    /\ par[p].failedAt = "spawn" /\ par[p].pc = "panicked"
    /\ ofd[par[p].k].inode # 0
    /\ ~par[p].heldBefore

\* C4: a spawn that succeeded followed by a failed handoff write makes Reborn
\* return an error that is not nil, together with the handle of the child.
C4_HandoffFailureIsReturned ==
  \A p \in Procs :
    par[p].failedAt = "encode"
      => /\ par[p].err # Nil
         /\ par[p].child # 0
         /\ ~par[p].panicking

\* the handoff write failed after a spawn, and Reborn has returned
C4_Witness ==
  \E p \in Procs :
    /\ par[p].pc = "returned" /\ par[p].failedAt = "encode"
    /\ child[par[p].k].st = "exited"

\* C5: when the parent path has ended, by return or by panic, nothing the call
\* opened is still open in the parent and every handle field of the Context is
\* nil.
C5_ParentReleasesEverything ==
  \A p \in Procs :
    Finished(par[p])
      => /\ par[p].open = {}
         /\ par[p].nonnil = {}
         /\ "parent" \notin ofd[par[p].k].holders
         /\ "parent" \notin pipes[par[p].k].readers
         /\ ~pipes[par[p].k].wopen

\* the parent path ended in failure with all five handles opened
C5_Witness ==
  \E p \in Procs :
    /\ par[p].pc = "panicked" /\ par[p].failedAt = "spawn"
    /\ Len(par[p].d.PidFileName) > 0 /\ Len(par[p].d.LogFileName) > 0


\* the process spawned by call k has decoded its Context from descriptor 0
Decoded(k) ==
  /\ child[k].st = "alive"
  /\ \E i \in DOMAIN child[k].did : child[k].did[i] = "decode"
  /\ "decode" \notin child[k].failed

Mark == <<"_GO_DAEMON", "=", "1">>

C7_ParentEnvironmentUntouched ==
  /\ \A p \in Procs : environ[p] = OsEnviron /\ ~WasReborn(environ[p])
  /\ \A k \in CallIds :
       child[k].st = "alive" => child[k].env[Len(child[k].env)] = Mark

\* one caller has made every call of the run and spawned a process by the last
C7_Witness ==
  \E p \in Procs :
    /\ calls = MaxCalls /\ par[p].pc = "returned" /\ par[p].k = MaxCalls
    /\ \A q \in Procs \ {p} : par[q].pc = "idle"
    /\ child[par[p].k].st = "alive"

\* the table of the positional contract for call k and the Context d
ContractTable(k, d) ==
  LET out == IF d.LogFileName # <<>> THEN Fd("log", k) ELSE Fd("null", k)
  IN  << Fd("rpipe", k), out, out, Fd("null", k) >>
      \o (IF d.PidFileName # <<>> THEN << Fd("pid", k) >> ELSE << >>)

\* C8: a spawned process starts with the handoff pipe at 0, the log file or
\* the null device at 1 and 2, the null device at 3 and the pid file at 4
\* exactly when a path is configured; a child path that ran with no system
\* call failing has the null device at 0 and, when a path is configured, has
\* written its pid through descriptor 4 into the file the parent locked.
C8_DescriptorContract ==
  \A k \in CallIds :
    child[k].st = "alive" =>
      /\ child[k].did = <<>> => child[k].fds = ContractTable(k, child[k].sent)
      /\ (child[k].rets # <<>> /\ child[k].failed = {}) =>
           /\ child[k].fds[1] = Fd("null", k)
           /\ child[k].sent.PidFileName # <<>> =>
                /\ child[k].fds[5] = Fd("pid", k)
                /\ "child" \in ofd[k].holders /\ ofd[k].locked
                /\ pidData[ofd[k].inode] = Pid(k)

\* a child with a pid file and a log file configured has run its child path
C8_Witness ==
  \E k \in CallIds :
    /\ child[k].st = "alive" /\ child[k].rets = <<Nil>> /\ child[k].failed = {}
    /\ child[k].sent.PidFileName # <<>> /\ child[k].sent.LogFileName # <<>>

\* C9: once the child path has been entered in a process image, a further
\* invocation returns the invalid-operation error and performs no step: the
\* steps done, the Context, the descriptors and the pid files stay as they are.
C9_ChildPathRunsOnce ==
  [][\A k \in CallIds :
       (child[k].st = "alive" /\ child[k].initialized /\ child'[k].st = "alive")
         => /\ child'[k].did = child[k].did
            /\ child'[k].d = child[k].d
            /\ child'[k].fds = child[k].fds
            /\ child'[k].initialized
            /\ child'[k].rets # child[k].rets =>
                 (child'[k].rets = Append(child[k].rets, ErrInvalid)
                    /\ pidData' = pidData)]_vars

\* a second invocation has returned the invalid-operation error after a first
\* one that failed
C9_Witness ==
  \E k \in CallIds :
    /\ child[k].st = "alive" /\ Len(child[k].rets) = 2
    /\ child[k].rets[1] # Nil /\ child[k].rets[2] = ErrInvalid

\* C10: the child path returns no error only if no step of it failed.
C10_ChildNilOnlyIfAllStepsSucceeded ==
  \A k \in CallIds :
    (child[k].st = "alive" /\ child[k].rets # <<>> /\ child[k].rets[1] = Nil)
      => child[k].failed = {}

\* ------------------------------------------------------ oracle claims
\* the target of an executable link without the kernel's marker: the marker is
\* removed when the target ends with it, and nothing else is
StripDeleted(t) ==
  LET n == Len(t) - Len(DeletedMarker)
  IN  IF n >= 0 /\ SubSeq(t, n + 1, Len(t)) = DeletedMarker
      THEN SubSeq(t, 1, n) ELSE t

Answered == "IsProcessRunning" \in oracle.asked

\* C11: without a pid-file hint the oracle answers true exactly when the
\* executable link of pid (and its own) can be read and pid's executable path
\* is the calling process's executable path; a pid that runs another
\* executable gets false.
C11_RunningIffSameExecutable ==
  (Answered /\ oracle.q.pidfiles = << >>) =>
    (oracle.running <=>
       /\ oracle.q.myLink # << >>
       /\ oracle.q.link # << >>
       /\ StripDeleted(oracle.q.link[1]) = StripDeleted(oracle.q.myLink[1]))

\* C12: GetExecPath returns the link target without the " (deleted)" marker
\* when the target carries it, and the target itself when it does not.
C12_ExecPathIsTargetWithoutMarker ==
  ("GetExecPath" \in oracle.asked /\ oracle.q.link # << >>) =>
    oracle.exec = << StripDeleted(oracle.q.link[1]) >>

\* C13: with a pid-file hint, differing executable paths and both files
\* readable, the oracle answers running when the two times differ by less
\* than 60 seconds and not running when they differ by more, in either
\* direction.
C13_TimeWindow ==
  LET q == oracle.q
      diff == Abs(q.pidfiles[1][1] - q.procStat[1].mtime)
  IN  ( /\ Answered
        /\ q.myLink # << >> /\ q.link # << >>
        /\ StripDeleted(q.link[1]) # StripDeleted(q.myLink[1])
        /\ q.pidfiles # << >> /\ q.pidfiles[1] # << >>
        /\ q.procStat # << >> ) =>
      /\ diff < 60 => oracle.running
      /\ diff > 60 => ~oracle.running

\* the last component of a path
RECURSIVE BaseName(_)
BaseName(path) ==
  IF Len(path) = 0 \/ path[Len(path)] = "/" THEN << >>
  ELSE Append(BaseName(SubSeq(path, 1, Len(path) - 1)), path[Len(path)])

\* C18: with a pid-file hint and differing executable paths, the oracle
\* answers running when the short name in the target's status file is the base
\* name of its own executable path, whatever the two times are.
C18_ShortNameFallback ==
  LET q == oracle.q
  IN  ( /\ Answered
        /\ q.myLink # << >> /\ q.link # << >>
        /\ StripDeleted(q.link[1]) # StripDeleted(q.myLink[1])
        /\ q.pidfiles # << >> /\ q.pidfiles[1] # << >>
        /\ q.procStat # << >>
        /\ q.procStat[1].comm = BaseName(StripDeleted(q.myLink[1])) ) =>
      oracle.running

\* ------------------------------------------------- child-path claims
\* the position of a step among the steps a process image has made, 0 when
\* it has not made it
StepAt(c, step) ==
  IF \E i \in DOMAIN c.did : c.did[i] = step
  THEN CHOOSE i \in DOMAIN c.did : c.did[i] = step
  ELSE 0

\* C19: in the credential step the group id is changed first and the user id
\* second, each only when its configured value is nonzero: the user id is
\* never changed before the group id, a value of 0 is never applied, and a
\* failed group change ends the child path before the user id is changed.
C19_GidBeforeUid ==
  \A k \in CallIds :
    LET c == child[k]
        gid == StepAt(c, "setgid")
        uid == StepAt(c, "setuid")
    IN  /\ gid # 0 => (c.d.Credential # << >> /\ c.d.Credential[1].Gid # 0)
        /\ uid # 0 => (c.d.Credential # << >> /\ c.d.Credential[1].Uid # 0)
        /\ (uid # 0 /\ c.d.Credential[1].Gid # 0) => (gid # 0 /\ gid < uid)
        /\ "setgid" \in c.failed => uid = 0

\* a process image that was configured with both ids and has changed both
C19_Witness ==
  \E k \in CallIds :
    /\ child[k].d.Credential # << >>
    /\ child[k].d.Credential[1].Gid # 0
    /\ child[k].d.Credential[1].Uid # 0
    /\ StepAt(child[k], "setgid") # 0
    /\ StepAt(child[k], "setuid") # 0

\* C20: every process the parent path spawns takes the child path, whatever
\* the Context: with an environment the caller supplied, an entry for the
\* marker key with another value included, or with the defaulted one, the
\* spawned process observes the mark.
C20_SpawnedObservesMark ==
  \A k \in CallIds :
    child[k].st = "alive" =>
      (WasReborn(child[k].env) /\ StepAt(child[k], "parent") = 0)

\* ---------------------------------------------------- lifecycle claims
\* what the last finished command printed
Last == life.out[Len(life.out)]

\* C14: with a pid-file path, once Start has reported success and while the
\* daemon it started lives, a following Status prints "running" and exits 0
\* and a following Stop prints "stopped", exits 0 and leaves the pid file
\* absent; a Status after that Stop prints "stopped" and exits 1.
C14_Lifecycle ==
  /\ \A i \in 2 .. Len(life.out) :
       LET a == life.out[i - 1]
           b == life.out[i]
           started == a.cmd = "start" /\ a.printed = "started" /\ a.pid \in b.daemons
       IN  /\ (started /\ b.cmd = "status") => (b.printed = "running" /\ b.code = 0)
           /\ (started /\ b.cmd = "stop") => (b.printed = "stopped" /\ b.code = 0)
           /\ (a.cmd = "stop" /\ a.printed = "stopped" /\ b.cmd = "status")
                => (b.printed = "stopped" /\ b.code = 1)
  /\ (life.out # << >> /\ life.cur = "none") =>
       ((Last.cmd = "stop" /\ Last.printed = "stopped") => pidPath[PidPath] = 0)

\* C15: whenever the pid file holds the pid of a daemon that is gone, Status
\* prints "crashed" and exits 1; it does not print "running" for it, also
\* when an unrelated process has the pid by then.
C15_GoneDaemonIsCrashed ==
  \A i \in DOMAIN life.out :
    LET b == life.out[i]
    IN  (b.cmd = "status" /\ b.pid # 0 /\ b.pid \notin b.daemons)
          => (b.printed = "crashed" /\ b.code = 1)

\* C16: when Stop has printed "stopped", or Kill "killed", and removed the
\* pid file, the daemon it signalled is not alive any more.
C16_SignalledDaemonHasExited ==
  (life.out # << >> /\ life.cur = "none") =>
    ((Last.cmd \in {"stop", "kill"} /\ Last.printed \in {"stopped", "killed"})
       => Last.pid \notin LiveDaemons)

\* C17: for a pid-file path, at most one daemon spawned for it is alive, in
\* every state that Start, Stop, Kill and the exits of daemons can reach.
C17_OneLiveDaemonPerPath ==
  \A j, k \in LiveDaemons :
    (child[j].sup.PidFileName = child[k].sup.PidFileName) => j = k

====
